---- MODULE Spec2Model ----
(***************************************************************************)
(* UserKeyPairAgent: the Ed25519 request signing / verification policy     *)
(* agent of model/src/lib.rs, with the User directory it reads.            *)
(*                                                                         *)
(* Bytes are naturals 0..255, byte strings are sequences of bytes, text    *)
(* that is base64 is a sequence of sextets 0..63 (64 is the pad '=').      *)
(* Collection names are sequences of one-character strings.                *)
(***************************************************************************)
EXTENDS Integers, Sequences, FiniteSets, TLC

----------------------------------------------------------------------------
(* Widths the code fixes.                                                  *)

\* lib.rs:195  `if bytes.len() < 80`
AUTH_DATA_LEN == 80
\* lib.rs:207  `let user_id_bytes: [u8; 16]`
USER_ID_LEN == 16
\* lib.rs:213  `let signature_bytes: [u8; 64]`
SIGNATURE_LEN == 64
\* lib.rs:256  `let verifying_key_bytes: [u8; 32]`
VERIFYING_KEY_LEN == 32

(* Bounds of the exploration.                                              *)

\* longest token sequence presented with one request
MaxTokens == 2
\* most bytes a token carries past AUTH_DATA_LEN
MaxExtra == 1
\* threads that call initialize_root_context on the shared server agent
MaxCallers == 3
\* the ready() calls a page makes while start() runs
MaxReady == 2
\* the times the page is loaded
MaxRuns == 2

----------------------------------------------------------------------------
(* Byte strings.                                                           *)

Repeat(b, n) == [i \in 1..n |-> b]

Take(s, n) == SubSeq(s, 1, n)

----------------------------------------------------------------------------
(* base64.  Pad marks the '=' character; the standard alphabet pads, the   *)
(* EntityId text form does not.                                            *)

Pad == 64

ByteAt(bytes, i) == IF i <= Len(bytes) THEN bytes[i] ELSE 0

\* the k-th sextet (k in 1..4) of the 3-byte group starting at byte 3g+1
Sextet(bytes, g, k) ==
    LET b1 == ByteAt(bytes, 3 * g + 1)
        b2 == ByteAt(bytes, 3 * g + 2)
        b3 == ByteAt(bytes, 3 * g + 3)
    IN  CASE k = 1 -> b1 \div 4
          [] k = 2 -> (b1 % 4) * 16 + (b2 \div 16)
          [] k = 3 -> (b2 % 16) * 4 + (b3 \div 64)
          [] k = 4 -> b3 % 64

\* number of data characters for n bytes
DataChars(n) == 4 * (n \div 3) + (IF n % 3 = 0 THEN 0 ELSE (n % 3) + 1)

base64_encode(bytes, padded) ==
    LET n     == Len(bytes)
        data  == DataChars(n)
        total == IF padded THEN 4 * ((n + 2) \div 3) ELSE data
    IN  [i \in 1..total |->
            IF i <= data THEN Sextet(bytes, (i - 1) \div 4, ((i - 1) % 4) + 1)
            ELSE Pad]

\* decoded byte j of the data characters s
DecodedByte(s, j) ==
    LET g  == (j - 1) \div 3
        r  == (j - 1) % 3
        c1 == s[4 * g + 1]
        c2 == s[4 * g + 2]
        c3 == IF 4 * g + 3 <= Len(s) THEN s[4 * g + 3] ELSE 0
        c4 == IF 4 * g + 4 <= Len(s) THEN s[4 * g + 4] ELSE 0
    IN  CASE r = 0 -> c1 * 4 + (c2 \div 16)
          [] r = 1 -> (c2 % 16) * 16 + (c3 \div 4)
          [] r = 2 -> (c3 % 4) * 64 + c4

\* number of trailing pad characters
PadCount(s) ==
    IF Len(s) >= 2 /\ s[Len(s)] = Pad /\ s[Len(s) - 1] = Pad THEN 2
    ELSE IF Len(s) >= 1 /\ s[Len(s)] = Pad THEN 1
    ELSE 0

\* [ok, bytes]: decoding fails on a character outside the alphabet, on a
\* length no byte string encodes, on missing or misplaced padding, and on
\* non-zero bits after the last byte.
base64_decode(s, padded) ==
    LET pads == IF padded THEN PadCount(s) ELSE 0
        data == Take(s, Len(s) - pads)
        m    == Len(data)
        n    == (m * 6) \div 8
        ok   == /\ \A i \in 1..m : data[i] \in 0..63
                /\ m % 4 # 1
                /\ padded => Len(s) % 4 = 0
                /\ m = DataChars(n)
                /\ (m % 4 = 2) => data[m] % 16 = 0
                /\ (m % 4 = 3) => data[m] % 4 = 0
    IN  IF ok THEN [ok |-> TRUE, bytes |-> [j \in 1..n |-> DecodedByte(data, j)]]
        ELSE [ok |-> FALSE, bytes |-> <<>>]

----------------------------------------------------------------------------
(* Ed25519, idealised: a signature is a function of the signing key and    *)
(* the message, and verifies only under the verifying key of that signing  *)
(* key over that message.                                                  *)

SigningKeys == {1, 2}

\* SigningKey::verifying_key().to_bytes()
verifying_key_bytes(sk) == Repeat(100 + sk, VERIFYING_KEY_LEN)

\* a 32-byte string that is not the encoding of a curve point
NotAPoint == Repeat(255, VERIFYING_KEY_LEN)

\* VerifyingKey::from_bytes: [ok, key]
VerifyingKey_from_bytes(bytes) ==
    IF \E sk \in SigningKeys : bytes = verifying_key_bytes(sk)
    THEN [ok |-> TRUE, key |-> bytes]
    ELSE [ok |-> FALSE, key |-> <<>>]

\* SigningKey::sign(msg).to_bytes(): 64 bytes
sign(sk, msg) ==
    [i \in 1..SIGNATURE_LEN |->
        IF i = 1 THEN sk
        ELSE IF i - 1 <= Len(msg) THEN msg[i - 1]
        ELSE 0]

\* variant: only the signer is checked, not the message signed
verify_AnyMessage(key, msg, signature) ==
    \E sk \in SigningKeys :
        /\ key = verifying_key_bytes(sk)
        /\ signature[1] = sk

\* VerifyingKey::verify(msg, signature)
verify(key, msg, signature) ==
    \E sk \in SigningKeys :
        /\ key = verifying_key_bytes(sk)
        /\ signature = sign(sk, msg)

----------------------------------------------------------------------------
(* Requests and their encoding.                                            *)

Requests == [id : {1}, body : {1, 2}]

\* serde_json::to_vec(request): the fields in declaration order
serde_json_to_vec(request) == <<request.id, request.body>>

----------------------------------------------------------------------------
(* Contexts and agents.                                                    *)

EntityId(n) == Repeat(n, USER_ID_LEN)

\* actors that may hold a directory record
ActorIds == {EntityId(1)}
\* an id no record is ever created for
Stranger == EntityId(2)

Root == [kind |-> "Root"]
Anonymous == [kind |-> "Anonymous"]
User(id) == [kind |-> "User", id |-> id]

MyContextData == {Root, Anonymous} \cup {User(id) : id \in ActorIds \cup {Stranger}}

new_client(signing_key) == [variant |-> "Client", signing_key |-> signing_key]
new_server == [variant |-> "Server"]

Agents == {new_server} \cup {new_client(sk) : sk \in SigningKeys}

----------------------------------------------------------------------------
(* The User directory: pub_key values a record can hold.                   *)

\* wasm-bindings: BASE64.encode(verifying_key.to_bytes())
PubKeyOf(sk) == base64_encode(verifying_key_bytes(sk), TRUE)

\* what UserView::pub_key() returns: the string, or a property error
Readable(str) == [ok |-> TRUE, str |-> str]
Unreadable == [ok |-> FALSE, str |-> <<>>]

PubKeyValues ==
    {Readable(PubKeyOf(sk)) : sk \in SigningKeys}
        \cup { Readable(<<>>),                            \* String::new(): decodes to 0 bytes
               Readable(<<0>>),                           \* not base64
               Readable(base64_encode(NotAPoint, TRUE)),  \* 32 bytes, not a key
               Unreadable }

NoRecord == [exists |-> FALSE]
UserRecord(pub_key) == [exists |-> TRUE, pub_key |-> pub_key]

VARIABLES
    root_context,   \* the server agent's OnceCell<Context>: "unset" or "set"
    root_instance,  \* the Context the cell holds: the call that built it, 0 when unset
    users,          \* the User collection of the server's store, by EntityId
    last,           \* the most recent call: its inputs and what it returned
    init_pc,        \* where each concurrent initialize_root_context call stands
    rotated_from,   \* the signing key whose public key the latest commit replaced
                    \* by another key's, 0 when it replaced none
    message_entity, \* a Message entity of the store: its user field and the
                    \* context of the latest event accepted on it
    main_pc,        \* the statement the server's main is about to execute
    start_pc,       \* the statement the browser's start() is about to execute
    ready_pc,       \* where each ready() call of the page stands
    CLIENT,         \* the static CLIENT: whether the connector has been set
    CURRENT_USER,   \* the static CURRENT_USER: "unset", "null" or "user"
    connected,      \* whether the websocket connection is up (client.ready())
    storage_user_id,\* local storage item ankurah_template_user_id, 0: none
    created,        \* pub_key of each User entity this browser has committed
    runs            \* page loads so far

server_vars == <<root_context, root_instance, users, init_pc, rotated_from>>

browser_vars ==
    <<start_pc, ready_pc, CLIENT, CURRENT_USER, connected, storage_user_id,
      created, runs>>

vars == <<server_vars, last, message_entity, main_pc, browser_vars>>

\* the calls of initialize_root_context that run concurrently
Callers == 1..MaxCallers

\* variant: the cell is assigned, whatever it holds
OnceCell_set_Overwrites(held, value) == value

\* OnceCell::set: the content afterwards; a value is stored only in an empty
\* cell (the Err a full cell returns is dropped by `let _ =`)
OnceCell_set(held, value) == IF held = 0 THEN value ELSE held

----------------------------------------------------------------------------
(* Results.                                                                *)

Ok(value) == [kind |-> "Ok", value |-> value]
\* ValidationError::ValidationFailed(message)
ValidationFailed(message) ==
    [kind |-> "Err", message |-> message, got |-> 0, expected |-> 0]
\* ... format!("Insufficient auth data: got {} bytes, expected 80", bytes.len())
InsufficientAuthData(got) ==
    [kind |-> "Err", message |-> "Insufficient auth data",
     got |-> got, expected |-> AUTH_DATA_LEN]
\* panic!/expect: the call does not return
Panic(message) == [kind |-> "Panic", message |-> message]

----------------------------------------------------------------------------
(* UserKeyPairAgent                                                        *)

\* get_root_context: the context, or a panic
\* variant: an unset cell is reported as a validation error
get_root_context_Err(self) ==
    IF self.variant = "Server"
    THEN IF root_context = "set" THEN Ok("root")
         ELSE ValidationFailed("Root context not initialized - call initialize_root_context first")
    ELSE Panic("get_root_context called on non-client variant")

get_root_context(self) ==
    IF self.variant = "Server"
    THEN IF root_context = "set" THEN Ok("root")
         ELSE Panic("Root context not initialized - call initialize_root_context first")
    ELSE Panic("get_root_context called on non-client variant")

\* variant: a fetch the store does not answer is served from what is held
get_user_view_IgnoresFailure(user_id, store_answers) ==
    IF user_id \in DOMAIN users /\ users[user_id].exists
    THEN Ok(users[user_id])
    ELSE ValidationFailed("User not found")

\* variant: after a rotation the record is served as it was before it
get_user_view_Stale(user_id, store_answers) ==
    IF store_answers /\ user_id \in DOMAIN users /\ users[user_id].exists
    THEN IF rotated_from # 0
         THEN Ok(UserRecord(Readable(PubKeyOf(rotated_from))))
         ELSE Ok(users[user_id])
    ELSE ValidationFailed("User not found")

\* root_context.get::<UserView>(user_id).await: the record, or an error when
\* there is none or the store does not answer
get_user_view(user_id, store_answers) ==
    IF store_answers /\ user_id \in DOMAIN users /\ users[user_id].exists
    THEN Ok(users[user_id])
    ELSE ValidationFailed("User not found")

\* variant: Root is sent as Anonymous is, with an empty token
SignOne_RootAsAnonymous(signing_key, ctx, request) ==
    CASE ctx.kind = "User" ->
            Ok(ctx.id \o sign(signing_key, serde_json_to_vec(request)))
      [] ctx.kind = "Anonymous" -> Ok(<<>>)
      [] ctx.kind = "Root" -> Ok(<<>>)

\* one token of sign_request's loop on a client
SignOne(signing_key, ctx, request) ==
    CASE ctx.kind = "User" ->
            Ok(ctx.id \o sign(signing_key, serde_json_to_vec(request)))
      [] ctx.kind = "Anonymous" -> Ok(<<>>)
      [] ctx.kind = "Root" -> Panic("Root context should not be used from client")

\* variant: each token is put in front of those made so far
RECURSIVE SignLoop_Prepends(_, _, _, _, _)
SignLoop_Prepends(signing_key, cdata, request, i, auth_datas) ==
    IF i > Len(cdata) THEN Ok(auth_datas)
    ELSE LET one == SignOne(signing_key, cdata[i], request)
         IN  IF one.kind = "Ok"
             THEN SignLoop_Prepends(signing_key, cdata, request, i + 1,
                                    <<one.value>> \o auth_datas)
             ELSE one

RECURSIVE SignLoop(_, _, _, _, _)
SignLoop(signing_key, cdata, request, i, auth_datas) ==
    IF i > Len(cdata) THEN Ok(auth_datas)
    ELSE LET one == SignOne(signing_key, cdata[i], request)
         IN  IF one.kind = "Ok"
             THEN SignLoop(signing_key, cdata, request, i + 1, Append(auth_datas, one.value))
             ELSE one

sign_request(self, cdata, request) ==
    IF self.variant = "Client"
    THEN SignLoop(self.signing_key, cdata, request, 1, <<>>)
    ELSE Ok(<< <<>> >>)

\* variant: the length test also turns away a token of exactly 80 bytes
TooShort_Inclusive(bytes) == Len(bytes) <= AUTH_DATA_LEN

\* `if bytes.len() < 80`
TooShort(bytes) == Len(bytes) < AUTH_DATA_LEN

\* EntityId::from_bytes(bytes[..16])
user_id_of(bytes) == SubSeq(bytes, 1, USER_ID_LEN)

\* variant: the signature slice starts one byte early
signature_of_OffByOne(bytes) == SubSeq(bytes, USER_ID_LEN, AUTH_DATA_LEN - 1)

\* Signature::from_bytes(bytes[16..80])
signature_of(bytes) == SubSeq(bytes, USER_ID_LEN + 1, AUTH_DATA_LEN)

\* variant: a verified token is given the system context
VerifiedContext_Root(user_id) == Root

\* `contexts.push(MyContextData::User(user_id))`
VerifiedContext(user_id) == User(user_id)

\* the body of check_request's loop for one non-empty token of at least
\* AUTH_DATA_LEN bytes: the context, or the error or panic that ends the call
VerifyToken(self, bytes, request, store_answers) ==
    LET user_id   == user_id_of(bytes)
        signature == signature_of(bytes)
        root      == get_root_context(self)
        view      == get_user_view(user_id, store_answers)
        pub_key   == view.value.pub_key
        decoded   == base64_decode(pub_key.str, TRUE)
        key       == VerifyingKey_from_bytes(decoded.bytes)
    IN  IF self.variant = "Client"
        THEN ValidationFailed("Client cannot validate requests")
        ELSE IF root.kind # "Ok" THEN root
        ELSE IF view.kind # "Ok" THEN view
        ELSE IF ~pub_key.ok THEN ValidationFailed("Failed to get public key")
        ELSE IF ~decoded.ok THEN ValidationFailed("Invalid public key encoding")
        ELSE IF Len(decoded.bytes) # VERIFYING_KEY_LEN
             THEN ValidationFailed("Invalid public key length")
        ELSE IF ~key.ok THEN ValidationFailed("Invalid public key")
        ELSE IF ~verify(key.key, serde_json_to_vec(request), signature)
             THEN ValidationFailed("Signature verification failed")
        ELSE Ok(VerifiedContext(user_id))

\* whether the loop body for this token reads the directory
LooksUp(self, bytes) ==
    Len(bytes) >= AUTH_DATA_LEN /\ self.variant = "Server" /\ root_context = "set"

\* variant: a token that fails is passed over and the loop goes on
RECURSIVE CheckLoop_SkipsBadToken(_, _, _, _, _, _, _)
CheckLoop_SkipsBadToken(self, auth, request, fail_at, i, contexts, lookups) ==
    IF i > Len(auth) THEN [result |-> Ok(contexts), lookups |-> lookups]
    ELSE LET bytes == auth[i]
         IN  IF Len(bytes) = 0
             THEN CheckLoop_SkipsBadToken(self, auth, request, fail_at, i + 1,
                                          Append(contexts, Anonymous), lookups)
             ELSE IF TooShort(bytes)
             THEN CheckLoop_SkipsBadToken(self, auth, request, fail_at, i + 1,
                                          contexts, lookups)
             ELSE LET one  == VerifyToken(self, bytes, request, fail_at # i)
                      seen == IF LooksUp(self, bytes)
                              THEN Append(lookups, user_id_of(bytes))
                              ELSE lookups
                  IN  CheckLoop_SkipsBadToken(self, auth, request, fail_at, i + 1,
                          IF one.kind = "Ok" THEN Append(contexts, one.value) ELSE contexts,
                          seen)

\* check_request's loop from token i on; contexts are those pushed so far,
\* lookups the user ids fetched so far, fail_at the token whose fetch the
\* store does not answer (0: none)
RECURSIVE CheckLoop(_, _, _, _, _, _, _)
CheckLoop(self, auth, request, fail_at, i, contexts, lookups) ==
    IF i > Len(auth) THEN [result |-> Ok(contexts), lookups |-> lookups]
    ELSE LET bytes == auth[i]
         IN  IF Len(bytes) = 0
             THEN CheckLoop(self, auth, request, fail_at, i + 1,
                            Append(contexts, Anonymous), lookups)
             ELSE IF TooShort(bytes)
             THEN [result  |-> InsufficientAuthData(Len(bytes)),
                   lookups |-> lookups]
             ELSE LET one  == VerifyToken(self, bytes, request, fail_at # i)
                      seen == IF LooksUp(self, bytes)
                              THEN Append(lookups, user_id_of(bytes))
                              ELSE lookups
                  IN  IF one.kind = "Ok"
                      THEN CheckLoop(self, auth, request, fail_at, i + 1,
                                     Append(contexts, one.value), seen)
                      ELSE [result |-> one, lookups |-> seen]

check_request(self, auth, request, fail_at) ==
    CheckLoop(self, auth, request, fail_at, 1, <<>>, <<>>)

----------------------------------------------------------------------------
(* Entities as check_event and check_write see them.                       *)

UpperCase == <<"A", "B", "C", "D", "E", "F", "G", "H", "I", "J", "K", "L", "M",
               "N", "O", "P", "Q", "R", "S", "T", "U", "V", "W", "X", "Y", "Z">>
LowerCase == <<"a", "b", "c", "d", "e", "f", "g", "h", "i", "j", "k", "l", "m",
               "n", "o", "p", "q", "r", "s", "t", "u", "v", "w", "x", "y", "z">>

to_ascii_lowercase(c) ==
    IF \E i \in DOMAIN UpperCase : UpperCase[i] = c
    THEN LowerCase[CHOOSE i \in DOMAIN UpperCase : UpperCase[i] = c]
    ELSE c

\* variant: the comparison is exact
eq_ignore_ascii_case_Exact(a, b) == a = b

\* str::eq_ignore_ascii_case
eq_ignore_ascii_case(a, b) ==
    /\ Len(a) = Len(b)
    /\ \A i \in 1..Len(a) : to_ascii_lowercase(a[i]) = to_ascii_lowercase(b[i])

USER == <<"u", "s", "e", "r">>
MESSAGE == <<"m", "e", "s", "s", "a", "g", "e">>

Collections ==
    { USER, <<"U", "s", "e", "r">>, <<"U", "S", "E", "R">>, <<"u", "s", "e", "r", "s">>,
      MESSAGE, <<"M", "e", "s", "s", "a", "g", "e">>, <<"M", "E", "S", "S", "A", "G", "E">>,
      <<"r", "o", "o", "m">> }

\* EntityId::to_base64 / from_base64 (unpadded text of the 16 bytes)
to_base64(id) == base64_encode(id, FALSE)

\* variant: any text that decodes is taken for an id, whatever its length
from_base64_AnyLength(str) ==
    LET decoded == base64_decode(str, FALSE)
    IN  IF decoded.ok
        THEN [ok |-> TRUE, id |-> decoded.bytes]
        ELSE [ok |-> FALSE, id |-> <<>>]

from_base64(str) ==
    LET decoded == base64_decode(str, FALSE)
    IN  IF decoded.ok /\ Len(decoded.bytes) = USER_ID_LEN
        THEN [ok |-> TRUE, id |-> decoded.bytes]
        ELSE [ok |-> FALSE, id |-> <<>>]

\* Option<Value> of a field
None == [type |-> "None", str |-> <<>>]
String(str) == [type |-> "String", str |-> str]
I64 == [type |-> "I64", str |-> <<>>]

UserFieldValues ==
    {None, I64, String(<<>>), String(<<0>>)}
        \cup {String(to_base64(id)) : id \in ActorIds \cup {Stranger}}

\* an entity: its collection and the value of its "user" field
Entities == [collection : Collections, user : UserFieldValues]

Allow == [kind |-> "Ok", reason |-> ""]
ByPolicy(reason) == [kind |-> "Denied", reason |-> reason]

\* variant: the ownership comparison is left out
check_event_NoOwnership(self, cdata, entity_before, entity_after) ==
    IF cdata.kind = "Root" THEN Allow
    ELSE IF cdata.kind = "Anonymous"
    THEN IF eq_ignore_ascii_case(entity_after.collection, USER)
         THEN Allow
         ELSE ByPolicy("Anonymous context can only create User entities")
    ELSE Allow

\* variant: Root is not tested first and is handled as Anonymous is
check_event_RootAsAnonymous(self, cdata, entity_before, entity_after) ==
    IF cdata.kind \in {"Root", "Anonymous"}
    THEN IF eq_ignore_ascii_case(entity_after.collection, USER)
         THEN Allow
         ELSE ByPolicy("Anonymous context can only create User entities")
    ELSE IF eq_ignore_ascii_case(entity_after.collection, MESSAGE)
    THEN LET message_user == entity_after.user
             message_user_id == from_base64(message_user.str)
         IN  IF cdata.kind = "User" /\ message_user.type = "String"
             THEN IF ~message_user_id.ok THEN ByPolicy("Invalid user ID in message")
                  ELSE IF message_user_id.id # cdata.id
                  THEN ByPolicy("Message user mismatch")
                  ELSE Allow
             ELSE Allow
    ELSE Allow

\* variant: a Message that names an owner before the event is written only
\* by that owner
check_event_ChecksPriorOwner(self, cdata, entity_before, entity_after) ==
    IF cdata.kind = "Root" THEN Allow
    ELSE IF cdata.kind = "Anonymous"
    THEN IF eq_ignore_ascii_case(entity_after.collection, USER)
         THEN Allow
         ELSE ByPolicy("Anonymous context can only create User entities")
    ELSE IF eq_ignore_ascii_case(entity_after.collection, MESSAGE)
    THEN LET message_user == entity_after.user
             message_user_id == from_base64(message_user.str)
             prior_user_id == from_base64(entity_before.user.str)
         IN  IF /\ cdata.kind = "User"
                /\ entity_before.user.type = "String"
                /\ prior_user_id.ok
                /\ prior_user_id.id # cdata.id
             THEN ByPolicy("Message user mismatch")
             ELSE IF cdata.kind = "User" /\ message_user.type = "String"
             THEN IF ~message_user_id.ok THEN ByPolicy("Invalid user ID in message")
                  ELSE IF message_user_id.id # cdata.id
                  THEN ByPolicy("Message user mismatch")
                  ELSE Allow
             ELSE Allow
    ELSE Allow

\* variant: the ownership comparison is made on every collection
check_event_OwnershipEverywhere(self, cdata, entity_before, entity_after) ==
    IF cdata.kind = "Root" THEN Allow
    ELSE IF cdata.kind = "Anonymous"
    THEN IF eq_ignore_ascii_case(entity_after.collection, USER)
         THEN Allow
         ELSE ByPolicy("Anonymous context can only create User entities")
    ELSE LET message_user == entity_after.user
             message_user_id == from_base64(message_user.str)
         IN  IF cdata.kind = "User" /\ message_user.type = "String"
             THEN IF ~message_user_id.ok THEN ByPolicy("Invalid user ID in message")
                  ELSE IF message_user_id.id # cdata.id
                  THEN ByPolicy("Message user mismatch")
                  ELSE Allow
             ELSE Allow

check_event(self, cdata, entity_before, entity_after) ==
    IF cdata.kind = "Root" THEN Allow
    ELSE IF cdata.kind = "Anonymous"
    THEN IF eq_ignore_ascii_case(entity_after.collection, USER)
         THEN Allow
         ELSE ByPolicy("Anonymous context can only create User entities")
    ELSE IF eq_ignore_ascii_case(entity_after.collection, MESSAGE)
    THEN LET message_user == entity_after.user
             message_user_id == from_base64(message_user.str)
         IN  IF cdata.kind = "User" /\ message_user.type = "String"
             THEN IF ~message_user_id.ok THEN ByPolicy("Invalid user ID in message")
                  ELSE IF message_user_id.id # cdata.id
                  THEN ByPolicy("Message user mismatch")
                  ELSE Allow
             ELSE Allow
    ELSE Allow

check_write(self, data, entity) == Allow

\* the checkpoints that read none of their arguments
validate_received_event(self, received_from_node, event) == Allow

validate_received_state(self, received_from_node, state) == Allow

can_access_collection(self, data, collection) == Allow

\* variant: a read needs a context other than Anonymous
check_read_NeedsIdentity(self, data, id, collection, state) ==
    IF \E i \in 1..Len(data) : data[i] # Anonymous
    THEN Allow
    ELSE ByPolicy("Anonymous context cannot read")

check_read(self, data, id, collection, state) == Allow

check_read_event(self, data, event) == Allow

validate_causal_assertion(self, peer_id, head_relation) == Allow

\* ankql predicates: the constants and a comparison of the user field
Predicates ==
    {[op |-> "True", user |-> <<>>], [op |-> "False", user |-> <<>>]}
        \cup {[op |-> "Eq", user |-> to_base64(id)] : id \in ActorIds \cup {Stranger}}

filter_predicate(self, data, collection, predicate) == Ok(predicate)

\* what the store hands to the received-event, received-state, read-event
\* and causal-assertion checkpoints: events and states of an entity of a
\* collection, and the relation a peer asserts between two heads
Events == [collection : {USER, MESSAGE}, entity_id : ActorIds \cup {Stranger}]

EntityStates == [collection : {USER, MESSAGE}, entity_id : ActorIds \cup {Stranger}]

CausalAssertions == {"Descends", "NotDescends", "PartiallyDescends", "Incomparable"}

----------------------------------------------------------------------------
(* Inputs.                                                                 *)

\* the token a client holding signing key sk sends for User(id) over request
SignedToken(id, sk, request) == id \o sign(sk, serde_json_to_vec(request))

Request1 == [id |-> 1, body |-> 1]
Request2 == [id |-> 1, body |-> 2]

\* tokens presented to check_request: signed ones, and what an arbitrary
\* peer can send instead (cut short, extended, signed with another key,
\* naming an id without a record, carrying no signature at all)
Tokens ==
    { <<>>,
      SignedToken(EntityId(1), 1, Request1),
      SignedToken(EntityId(1), 1, Request2),
      SignedToken(EntityId(1), 2, Request1),
      SignedToken(Stranger, 1, Request1),
      Take(SignedToken(EntityId(1), 1, Request1), 1),
      Take(SignedToken(EntityId(1), 1, Request1), AUTH_DATA_LEN - 1),
      EntityId(1) \o Repeat(0, SIGNATURE_LEN) }
        \cup { SignedToken(EntityId(1), 1, Request1) \o Repeat(7, n) : n \in 1..MaxExtra }

\* a signed token cut to every length short of AUTH_DATA_LEN
ShortTokens ==
    {Take(SignedToken(EntityId(1), 1, Request1), n) : n \in 1..(AUTH_DATA_LEN - 1)}

SeqsUpTo(S, n) == UNION {[1..k -> S] : k \in 0..n}

\* the token sequences presented to check_request
AuthInputs == SeqsUpTo(Tokens, MaxTokens) \cup {<<t>> : t \in ShortTokens}

----------------------------------------------------------------------------
(* The state machine.                                                      *)

\* no call is in progress
Idle == [op |-> "idle"]

\* the ready() calls of a page
ReadyCalls == 1..MaxReady

\* no Message entity yet
NoMessage == [exists |-> FALSE, user |-> None, issuer |-> Anonymous]

\* the store without a Message, main and start() not begun, the browser's
\* statics as lazy_static makes them and its local storage empty
InitProcesses ==
    /\ message_entity = NoMessage
    /\ main_pc = "new_server"
    /\ start_pc = "load_or_generate_user_keypair"
    /\ ready_pc = [r \in ReadyCalls |-> "idle"]
    /\ CLIENT = FALSE
    /\ CURRENT_USER = "unset"
    /\ connected = FALSE
    /\ storage_user_id = 0
    /\ created = <<>>
    /\ runs = 1

Init ==
    /\ root_context = "unset"
    /\ root_instance = 0
    /\ users = [id \in ActorIds |-> NoRecord]
    /\ last = Idle
    /\ init_pc = [c \in Callers |-> "ready"]
    /\ rotated_from = 0
    /\ InitProcesses

\* initialize_root_context: OnceCell::set keeps the first value, and the
\* result of a later set is discarded
InitializeRootContext ==
    /\ last = Idle
    /\ \E self \in Agents :
        /\ root_context' = IF self.variant = "Server" THEN "set" ELSE root_context
        /\ root_instance' = IF self.variant = "Server"
                            THEN OnceCell_set(root_instance, 1)
                            ELSE root_instance
        /\ last' = [op |-> "initialize_root_context", self |-> self]
        /\ UNCHANGED <<users, init_pc, rotated_from, message_entity, main_pc, browser_vars>>

SignRequest ==
    /\ last = Idle
    /\ \E self \in Agents, cdata \in SeqsUpTo(MyContextData, MaxTokens), request \in Requests :
        /\ last' = [op |-> "sign_request", self |-> self, cdata |-> cdata,
                    request |-> request, result |-> sign_request(self, cdata, request)]
        /\ UNCHANGED <<server_vars, message_entity, main_pc, browser_vars>>

CheckRequest ==
    /\ last = Idle
    /\ \E self \in Agents, auth \in AuthInputs, request \in Requests :
        \E fail_at \in {0} \cup {i \in 1..Len(auth) : LooksUp(self, auth[i])} :
            LET r == check_request(self, auth, request, fail_at)
            IN  /\ last' = [op |-> "check_request", self |-> self, auth |-> auth,
                            request |-> request, fail_at |-> fail_at,
                            result |-> r.result, lookups |-> r.lookups]
                /\ UNCHANGED <<server_vars, message_entity, main_pc, browser_vars>>

CheckEvent ==
    /\ last = Idle
    /\ \E self \in Agents, cdata \in MyContextData, entity_after \in Entities :
        \E entity_before \in {[entity_after EXCEPT !.user = None], entity_after} :
            /\ last' = [op |-> "check_event", cdata |-> cdata,
                        entity_before |-> entity_before, entity_after |-> entity_after,
                        result |-> check_event(self, cdata, entity_before, entity_after)]
            /\ UNCHANGED <<server_vars, message_entity, main_pc, browser_vars>>

CheckWrite ==
    /\ last = Idle
    /\ \E self \in Agents, data \in MyContextData, entity \in Entities :
        /\ last' = [op |-> "check_write", data |-> data, entity |-> entity,
                    result |-> check_write(self, data, entity)]
        /\ UNCHANGED <<server_vars, message_entity, main_pc, browser_vars>>

\* the contexts a caller hands to a checkpoint taking an Iterable
ContextSets == SeqsUpTo(MyContextData, MaxTokens)

ValidateReceivedEvent ==
    /\ last = Idle
    /\ \E self \in Agents, received_from_node \in ActorIds \cup {Stranger}, event \in Events :
        /\ last' = [op |-> "validate_received_event", self |-> self,
                    received_from_node |-> received_from_node, event |-> event,
                    result |-> validate_received_event(self, received_from_node, event)]
        /\ UNCHANGED <<server_vars, message_entity, main_pc, browser_vars>>

ValidateReceivedState ==
    /\ last = Idle
    /\ \E self \in Agents, received_from_node \in ActorIds \cup {Stranger},
          state \in EntityStates :
        /\ last' = [op |-> "validate_received_state", self |-> self,
                    received_from_node |-> received_from_node, state |-> state,
                    result |-> validate_received_state(self, received_from_node, state)]
        /\ UNCHANGED <<server_vars, message_entity, main_pc, browser_vars>>

CanAccessCollection ==
    /\ last = Idle
    /\ \E self \in Agents, data \in ContextSets, collection \in Collections :
        /\ last' = [op |-> "can_access_collection", self |-> self, data |-> data,
                    collection |-> collection,
                    result |-> can_access_collection(self, data, collection)]
        /\ UNCHANGED <<server_vars, message_entity, main_pc, browser_vars>>

CheckRead ==
    /\ last = Idle
    /\ \E self \in Agents, data \in ContextSets, state \in EntityStates :
        /\ last' = [op |-> "check_read", self |-> self, data |-> data, state |-> state,
                    result |-> check_read(self, data, state.entity_id,
                                          state.collection, state)]
        /\ UNCHANGED <<server_vars, message_entity, main_pc, browser_vars>>

CheckReadEvent ==
    /\ last = Idle
    /\ \E self \in Agents, data \in ContextSets, event \in Events :
        /\ last' = [op |-> "check_read_event", self |-> self, data |-> data,
                    event |-> event, result |-> check_read_event(self, data, event)]
        /\ UNCHANGED <<server_vars, message_entity, main_pc, browser_vars>>

ValidateCausalAssertion ==
    /\ last = Idle
    /\ \E self \in Agents, peer_id \in ActorIds \cup {Stranger},
          head_relation \in CausalAssertions :
        /\ last' = [op |-> "validate_causal_assertion", self |-> self,
                    peer_id |-> peer_id, head_relation |-> head_relation,
                    result |-> validate_causal_assertion(self, peer_id, head_relation)]
        /\ UNCHANGED <<server_vars, message_entity, main_pc, browser_vars>>

FilterPredicate ==
    /\ last = Idle
    /\ \E self \in Agents, data \in ContextSets, collection \in {USER, MESSAGE},
          predicate \in Predicates :
        /\ last' = [op |-> "filter_predicate", self |-> self, data |-> data,
                    collection |-> collection, predicate |-> predicate,
                    result |-> filter_predicate(self, data, collection, predicate)]
        /\ UNCHANGED <<server_vars, message_entity, main_pc, browser_vars>>

\* a transaction under cdata that writes pub_key to the User entity id: the
\* store applies the event only if check_event allows it
CommitUserStep(cdata, id, pub_key) ==
    LET entity_before == [collection |-> USER, user |-> None]
        entity_after  == [collection |-> USER, user |-> None]
        decision      == check_event(new_server, cdata, entity_before, entity_after)
    IN  /\ users' = IF decision.kind = "Ok"
                    THEN [users EXCEPT ![id] = UserRecord(pub_key)]
                    ELSE users
        /\ last' = [op |-> "commit", cdata |-> cdata, id |-> id,
                    pub_key |-> pub_key, existed |-> users[id].exists,
                    result |-> decision]

CommitUser ==
    /\ last = Idle
    /\ \E cdata \in MyContextData, id \in ActorIds, pub_key \in PubKeyValues :
        /\ CommitUserStep(cdata, id, pub_key)
        /\ UNCHANGED <<root_context, root_instance, init_pc, rotated_from, message_entity, main_pc, browser_vars>>

\* the call returns: its result belongs to the caller and is not kept
Return ==
    /\ last # Idle
    /\ last' = Idle
    /\ UNCHANGED <<server_vars, message_entity, main_pc, browser_vars>>

Next ==
    \/ InitializeRootContext
    \/ SignRequest
    \/ CheckRequest
    \/ CheckEvent
    \/ CheckWrite
    \/ ValidateReceivedEvent
    \/ ValidateReceivedState
    \/ CanAccessCollection
    \/ CheckRead
    \/ CheckReadEvent
    \/ ValidateCausalAssertion
    \/ FilterPredicate
    \/ CommitUser
    \/ Return

Spec == Init /\ [][Next]_vars

----------------------------------------------------------------------------
(* initialize_root_context called from several threads on the server       *)
(* agent and its clones, which share the Arc<OnceCell<Context>>.  A call    *)
(* first builds its Context and then sets the cell, which is the one step   *)
(* that touches shared state; get_root_context may read at any moment.      *)

\* `Context::new(node, MyContextData::Root)`: the argument of set
BuildContext(c) ==
    /\ init_pc[c] = "ready"
    /\ init_pc' = [init_pc EXCEPT ![c] = "built"]
    /\ UNCHANGED <<root_context, root_instance, users, last, rotated_from, message_entity, main_pc, browser_vars>>

\* `let _ = root_context.set(...)`, after which the call returns
SetContext(c) ==
    /\ init_pc[c] = "built"
    /\ root_instance' = OnceCell_set(root_instance, c)
    /\ root_context' = "set"
    /\ init_pc' = [init_pc EXCEPT ![c] = "returned"]
    /\ UNCHANGED <<users, last, rotated_from, message_entity, main_pc, browser_vars>>

\* a reader: get_root_context on the server agent
ReadRootContext ==
    /\ last' = [op |-> "get_root_context",
                result |-> get_root_context(new_server),
                instance |-> root_instance,
                returned |-> {c \in Callers : init_pc[c] = "returned"}]
    /\ UNCHANGED <<server_vars, message_entity, main_pc, browser_vars>>

NextInit ==
    \/ \E c \in Callers : BuildContext(c)
    \/ \E c \in Callers : SetContext(c)
    \/ ReadRootContext

\* every thread is scheduled: a call that can take its next step takes it
SpecInit ==
    /\ Init
    /\ [][NextInit]_vars
    /\ \A c \in Callers : WF_vars(BuildContext(c)) /\ WF_vars(SetContext(c))

----------------------------------------------------------------------------
(* Events on a Message entity of the store, issued under the contexts that  *)
(* check_request can return; the store applies an event only if check_event *)
(* allows it.                                                               *)

ApplyEvent ==
    /\ last = Idle
    /\ \E cdata \in MyContextData \ {Root}, user \in UserFieldValues :
        LET entity_before == [collection |-> MESSAGE, user |-> message_entity.user]
            entity_after  == [collection |-> MESSAGE, user |-> user]
            decision      == check_event(new_server, cdata, entity_before, entity_after)
        IN  /\ message_entity' =
                  IF decision.kind = "Ok"
                  THEN [exists |-> TRUE, user |-> user, issuer |-> cdata]
                  ELSE message_entity
            /\ last' = [op |-> "apply_event", cdata |-> cdata,
                        entity_before |-> entity_before, entity_after |-> entity_after,
                        existed |-> message_entity.exists, result |-> decision]
    /\ UNCHANGED <<server_vars, main_pc, browser_vars>>

NextMessages ==
    \/ ApplyEvent
    \/ Return

SpecMessages == Init /\ [][NextMessages]_vars

----------------------------------------------------------------------------
(* The server process: main runs its statements in order, any fallible one  *)
(* ending the process, and requests arrive only once the websocket server   *)
(* runs.                                                                    *)

\* variant: main goes from creating the node to loading the system
main_after_NoInitialisation(pc, ok) ==
    CASE ~ok -> "exited"
      [] pc = "new_server" -> "wait_loaded"
      [] pc = "initialize_root_context" -> "wait_loaded"
      [] pc = "wait_loaded" -> "ensure_general_room"
      [] pc = "ensure_general_room" -> "run"
      [] pc = "run" -> "serving"
      [] OTHER -> pc

\* the statement main executes after pc, ok telling whether pc succeeded
\* (`?` returns from main on an error)
main_after(pc, ok) ==
    CASE ~ok -> "exited"
      [] pc = "new_server" -> "initialize_root_context"
      [] pc = "initialize_root_context" -> "wait_loaded"
      [] pc = "wait_loaded" -> "ensure_general_room"
      [] pc = "ensure_general_room" -> "run"
      [] pc = "run" -> "serving"
      [] OTHER -> pc

\* the statements of main that can fail
Fallible == {"new_server", "wait_loaded", "ensure_general_room", "run"}

MainStep ==
    /\ main_pc \notin {"serving", "exited"}
    /\ \E ok \in IF main_pc \in Fallible THEN BOOLEAN ELSE {TRUE} :
        main_pc' = main_after(main_pc, ok)
    /\ root_context' = IF main_pc = "initialize_root_context" THEN "set"
                       ELSE root_context
    /\ root_instance' = IF main_pc = "initialize_root_context"
                        THEN OnceCell_set(root_instance, 1)
                        ELSE root_instance
    /\ UNCHANGED <<users, init_pc, rotated_from, last, message_entity, browser_vars>>

\* a request of a connected peer is verified by the node's agent
Inbound ==
    /\ main_pc = "serving"
    /\ last = Idle
    /\ \E auth \in AuthInputs, request \in Requests :
        \E fail_at \in {0} \cup {i \in 1..Len(auth) : LooksUp(new_server, auth[i])} :
            LET r == check_request(new_server, auth, request, fail_at)
            IN  last' = [op |-> "check_request", self |-> new_server, auth |-> auth,
                         request |-> request, fail_at |-> fail_at,
                         result |-> r.result, lookups |-> r.lookups]
    /\ UNCHANGED <<server_vars, message_entity, main_pc, browser_vars>>

\* a connected peer registers or changes a User
InboundCommit ==
    /\ main_pc = "serving"
    /\ CommitUser

NextServer ==
    \/ MainStep
    \/ Inbound
    \/ InboundCommit
    \/ Return

SpecServer == Init /\ [][NextServer]_vars

----------------------------------------------------------------------------
(* The browser: start() runs once per page load and yields at each await,   *)
(* where ready() calls of the page run; local storage and the User entities *)
(* committed to the store outlive a page load.                              *)

\* the signing key load_or_generate_user_keypair returns on this browser
BrowserKey == 1

\* the statements of init_user_internal
InitUserSteps ==
    {"get_item", "fetch_user", "create", "set_pub_key", "commit", "set_item",
     "fetch_created"}

\* variant: the user id is stored as soon as the entity is created in the
\* transaction
init_user_after_StoresFirst(pc, stored) ==
    CASE pc = "get_item" -> IF stored THEN "fetch_user" ELSE "create"
      [] pc = "fetch_user" -> "notify_waiters"
      [] pc = "create" -> "set_item"
      [] pc = "set_item" -> "set_pub_key"
      [] pc = "set_pub_key" -> "commit"
      [] pc = "commit" -> "fetch_created"
      [] pc = "fetch_created" -> "notify_waiters"

\* the statement that follows pc in init_user_internal when pc succeeds;
\* stored: local storage holds a user id
init_user_after(pc, stored) ==
    CASE pc = "get_item" -> IF stored THEN "fetch_user" ELSE "create"
      [] pc = "fetch_user" -> "notify_waiters"
      [] pc = "create" -> "set_pub_key"
      [] pc = "set_pub_key" -> "commit"
      [] pc = "commit" -> "set_item"
      [] pc = "set_item" -> "fetch_created"
      [] pc = "fetch_created" -> "notify_waiters"

\* the statement that follows pc in start(); an error returns from start()
start_after(pc, ok, stored) ==
    CASE ~ok -> "failed"
      [] pc = "load_or_generate_user_keypair" -> "open"
      [] pc = "open" -> "WebsocketClient_new"
      [] pc = "WebsocketClient_new" -> "wait_system_ready"
      [] pc = "wait_system_ready" -> "set_statics"
      [] pc = "set_statics" -> "get_item"
      [] pc \in InitUserSteps -> init_user_after(pc, stored)
      [] pc = "notify_waiters" -> "done"
      [] OTHER -> pc

\* the statements of start() that cannot fail
Infallible == {"wait_system_ready", "set_statics", "notify_waiters"}

\* the locals of the init_user_internal call in progress: the id and the
\* pub_key of the entity in its transaction, and the statement that failed
Locals ==
    IF last = Idle
    THEN [op |-> "init_user_internal", user_id |-> 0, pub_key |-> <<>>, failed_at |-> ""]
    ELSE last

StartStep ==
    /\ start_pc \notin {"done", "failed"}
    /\ \E ok \in IF start_pc \in Infallible THEN {TRUE} ELSE BOOLEAN :
        LET decision == check_event(new_client(BrowserKey), Anonymous,
                                    [collection |-> USER, user |-> None],
                                    [collection |-> USER, user |-> None])
            done == IF start_pc = "commit" THEN ok /\ decision.kind = "Ok" ELSE ok
        IN  /\ start_pc' = start_after(start_pc, done, storage_user_id # 0)
            /\ last' =
                  IF ~done THEN [Locals EXCEPT !.failed_at = start_pc]
                  ELSE IF start_pc = "create"
                  THEN [Locals EXCEPT !.user_id = Len(created) + 1, !.pub_key = <<>>]
                  ELSE IF start_pc = "set_pub_key"
                  THEN [Locals EXCEPT !.pub_key = PubKeyOf(BrowserKey)]
                  ELSE last
            /\ created' = IF start_pc = "commit" /\ done
                          THEN Append(created, Locals.pub_key)
                          ELSE created
            /\ storage_user_id' = IF start_pc = "set_item" /\ done
                                  THEN Locals.user_id
                                  ELSE storage_user_id
            /\ CLIENT' = IF start_pc = "set_statics" THEN TRUE ELSE CLIENT
            /\ CURRENT_USER' =
                  IF start_pc = "set_statics" /\ CURRENT_USER = "unset" THEN "null"
                  ELSE IF start_pc = "notify_waiters" THEN "user"
                  ELSE CURRENT_USER
            /\ ready_pc' =
                  IF start_pc = "notify_waiters"
                  THEN [r \in ReadyCalls |->
                          IF ready_pc[r] = "notified" THEN "client_ready" ELSE ready_pc[r]]
                  ELSE ready_pc
    /\ UNCHANGED <<server_vars, message_entity, main_pc, connected, runs>>

\* start() is suspended in the .await of the statement it is at, or has
\* returned: the page's single thread runs other calls only then
Suspended ==
    start_pc \in {"open", "wait_system_ready", "fetch_user", "create", "commit",
                  "fetch_created", "done", "failed"}

\* ready() is called: with CLIENT set it awaits client.ready(), otherwise
\* NOTIFY.notified()
ReadyCall(r) ==
    /\ Suspended
    /\ ready_pc[r] = "idle"
    /\ ready_pc' = [ready_pc EXCEPT ![r] = IF CLIENT THEN "client_ready" ELSE "notified"]
    /\ UNCHANGED <<server_vars, last, message_entity, main_pc, start_pc, CLIENT,
                   CURRENT_USER, connected, storage_user_id, created, runs>>

\* client.ready() resolves once the connection is up, and ready() returns
ReadyReturn(r) ==
    /\ Suspended
    /\ ready_pc[r] = "client_ready"
    /\ connected
    /\ ready_pc' = [ready_pc EXCEPT ![r] = "returned"]
    /\ UNCHANGED <<server_vars, last, message_entity, main_pc, start_pc, CLIENT,
                   CURRENT_USER, connected, storage_user_id, created, runs>>

\* the connector made by WebsocketClient::new reaches the server
Connect ==
    /\ ~connected
    /\ CLIENT \/ start_pc \in {"wait_system_ready", "set_statics"}
    /\ connected' = TRUE
    /\ UNCHANGED <<server_vars, last, message_entity, main_pc, start_pc, ready_pc,
                   CLIENT, CURRENT_USER, storage_user_id, created, runs>>

\* the page is loaded again: the module's statics start afresh, local
\* storage and the store keep what they hold
Reload ==
    /\ runs < MaxRuns
    /\ runs' = runs + 1
    /\ start_pc' = "load_or_generate_user_keypair"
    /\ ready_pc' = [r \in ReadyCalls |-> "idle"]
    /\ CLIENT' = FALSE
    /\ CURRENT_USER' = "unset"
    /\ connected' = FALSE
    /\ last' = Idle
    /\ UNCHANGED <<server_vars, message_entity, main_pc, storage_user_id, created>>

NextBrowser ==
    \/ StartStep
    \/ \E r \in ReadyCalls : ReadyCall(r)
    \/ \E r \in ReadyCalls : ReadyReturn(r)
    \/ Connect
    \/ Reload

SpecBrowser == Init /\ [][NextBrowser]_vars

----------------------------------------------------------------------------
(* Key rotation: the server of main.rs, its root context initialised,      *)
(* with commits to the User record and verifications in any order.         *)

InitRotation ==
    /\ root_context = "set"
    /\ root_instance = 1
    /\ users = [id \in ActorIds |-> NoRecord]
    /\ last = Idle
    /\ init_pc = [c \in Callers |-> "ready"]
    /\ rotated_from = 0
    /\ InitProcesses

\* the signing key whose public key the record of id holds (0: none)
KeyHeld(record) ==
    IF \E sk \in SigningKeys : record = UserRecord(Readable(PubKeyOf(sk)))
    THEN CHOOSE sk \in SigningKeys : record = UserRecord(Readable(PubKeyOf(sk)))
    ELSE 0

\* CommitUser, remembering the key a commit rotates away from
CommitUserTracked ==
    /\ last = Idle
    /\ \E cdata \in MyContextData, id \in ActorIds, pub_key \in PubKeyValues :
        /\ CommitUserStep(cdata, id, pub_key)
        /\ rotated_from' =
              IF users'[id] = users[id] THEN rotated_from
              ELSE IF KeyHeld(users[id]) # 0 /\ KeyHeld(users'[id]) # 0
              THEN KeyHeld(users[id])
              ELSE 0
        /\ UNCHANGED <<root_context, root_instance, init_pc, message_entity, main_pc, browser_vars>>

NextRotation ==
    \/ CommitUserTracked
    \/ CheckRequest
    \/ Return

SpecRotation == InitRotation /\ [][NextRotation]_vars

----------------------------------------------------------------------------
(* Properties of check_request.                                            *)

\* a check_request call on the server agent has returned
Checked == last.op = "check_request"
OnInitialisedServer == last.self = new_server /\ root_context = "set"

\* token i is the first one of the call that is not empty
FirstNonEmpty(i) == \A j \in 1..(i - 1) : last.auth[j] = <<>>

\* the signing keys whose public key the directory records for id
RecordedKeys(id) ==
    {sk \in SigningKeys :
        id \in DOMAIN users /\ users[id] = UserRecord(Readable(PubKeyOf(sk)))}

\* C1: check_request never returns the Root context: every element of a
\* successful result is Anonymous or User(id), for every token sequence,
\* request and directory.
C1_NeverRoot ==
    (Checked /\ last.result.kind = "Ok") =>
        \A i \in 1..Len(last.result.value) :
            /\ last.result.value[i] # Root
            /\ \/ last.result.value[i] = Anonymous
               \/ \E id \in ActorIds \cup {Stranger} : last.result.value[i] = User(id)

\* a call that returned both an Anonymous and a User context
C1_Witness ==
    /\ Checked /\ last.result.kind = "Ok"
    /\ \E i, j \in 1..Len(last.result.value) :
        last.result.value[i] = Anonymous /\ last.result.value[j].kind = "User"

\* C2: round trip: the tokens sign_request produces on a client for contexts
\* User(A) (and Anonymous) over request R, checked with the same R on the
\* initialised server whose directory records the client's public key for
\* each A, yield exactly those contexts.
C2_RoundTrip ==
    \A sk \in SigningKeys :
        \A cdata \in SeqsUpTo({Anonymous} \cup {User(id) : id \in ActorIds}, MaxTokens) :
            ( /\ Checked /\ OnInitialisedServer /\ last.fail_at = 0
              /\ sign_request(new_client(sk), cdata, last.request) = Ok(last.auth)
              /\ \A i \in 1..Len(cdata) :
                    cdata[i].kind = "User" => sk \in RecordedKeys(cdata[i].id) )
            => last.result = Ok(cdata)

\* a signed token for a registered actor came back as that actor
C2_Witness ==
    /\ Checked /\ OnInitialisedServer
    /\ \E sk \in SigningKeys, id \in ActorIds :
        /\ sk \in RecordedKeys(id)
        /\ last.auth = <<SignedToken(id, sk, last.request)>>
        /\ last.result = Ok(<<User(id)>>)

\* C3: tamper detection: a token yields User(A) only if it carries A's id and
\* the signature, under the key the directory records for A, of the encoding
\* of the request being checked; a token signed over another request never
\* yields a context, and where it is the token that verified under the
\* recorded key the failure is the signature-verification error.
C3_TamperDetection ==
    Checked =>
        /\ last.result.kind = "Ok" =>
              \A i \in 1..Len(last.result.value) :
                  last.result.value[i].kind = "User" =>
                      \E sk \in RecordedKeys(last.result.value[i].id) :
                          Take(last.auth[i], AUTH_DATA_LEN)
                              = SignedToken(last.result.value[i].id, sk, last.request)
        /\ \A i \in 1..Len(last.auth), sk \in SigningKeys, R \in Requests,
              id \in ActorIds \cup {Stranger} :
              (R # last.request /\ last.auth[i] = SignedToken(id, sk, R)) =>
                  /\ last.result.kind # "Ok"
                  /\ ( /\ OnInitialisedServer /\ last.fail_at = 0 /\ FirstNonEmpty(i)
                       /\ sk \in RecordedKeys(id) )
                     => last.result = ValidationFailed("Signature verification failed")

\* a token that verifies over the other request was refused for its signature
C3_Witness ==
    /\ Checked /\ OnInitialisedServer
    /\ \E sk \in SigningKeys, id \in ActorIds, R \in Requests :
        /\ R # last.request
        /\ sk \in RecordedKeys(id)
        /\ last.auth = <<SignedToken(id, sk, R)>>
        /\ last.result = ValidationFailed("Signature verification failed")

\* C4: length boundaries on the server agent: an empty token yields
\* Anonymous; a token of 1..79 bytes fails with the too-short error naming
\* its length and 80, before any directory lookup; a token of 80 bytes whose
\* signature is valid yields User(id) with id its first 16 bytes.
C4_LengthBoundaries ==
    (Checked /\ last.self = new_server) =>
        \A i \in 1..Len(last.auth) :
            LET bytes == last.auth[i] IN
            /\ (Len(bytes) = 0 /\ last.result.kind = "Ok") =>
                    last.result.value[i] = Anonymous
            /\ (Len(bytes) = 0 /\ Len(last.auth) = 1) => last.result = Ok(<<Anonymous>>)
            /\ (Len(bytes) \in 1..(AUTH_DATA_LEN - 1) /\ FirstNonEmpty(i)) =>
                    /\ last.result.kind = "Err"
                    /\ last.result.message = "Insufficient auth data"
                    /\ last.result.got = Len(bytes)
                    /\ last.result.expected = 80
                    /\ last.lookups = <<>>
            /\ ( /\ Len(bytes) = AUTH_DATA_LEN /\ FirstNonEmpty(i) /\ i = Len(last.auth)
                 /\ root_context = "set" /\ last.fail_at = 0
                 /\ \E sk \in RecordedKeys(Take(bytes, 16)) :
                        bytes = SignedToken(Take(bytes, 16), sk, last.request) )
               => last.result = Ok([j \in 1..i |->
                                      IF j < i THEN Anonymous ELSE User(Take(bytes, 16))])

\* an empty token and an 80-byte signed token came back as Anonymous and
\* as the User named by the token's first 16 bytes
C4_Witness ==
    /\ Checked /\ OnInitialisedServer
    /\ Len(last.auth) = 2
    /\ last.auth[1] = <<>> /\ Len(last.auth[2]) = 80
    /\ last.result = Ok(<<Anonymous, User(Take(last.auth[2], 16))>>)

\* C5: a token is accepted only if it is empty or exactly 80 bytes long:
\* every other length is rejected, a longer token with a valid 80-byte
\* prefix included.
C5_OnlyEmptyOrExactLength ==
    Checked =>
        \A i \in 1..Len(last.auth) :
            Len(last.auth[i]) \notin {0, 80} => last.result.kind # "Ok"

\* token i alone would make the call succeed: it is empty, or it is checked
\* on the initialised server, the store answers, and its first 80 bytes are
\* the id and the signature, under the recorded key, of this request
GoodToken(i) ==
    LET bytes == last.auth[i] IN
    \/ bytes = <<>>
    \/ /\ OnInitialisedServer /\ last.fail_at # i
       /\ Len(bytes) >= 80
       /\ \E sk \in RecordedKeys(Take(bytes, 16)) :
            Take(bytes, 80) = SignedToken(Take(bytes, 16), sk, last.request)

\* C6: check_request is all-or-nothing and order-preserving: it returns
\* one context per token, in the order of the tokens, or no context at all;
\* it succeeds exactly when every token is good, so a failing token is never
\* dropped while the others are returned.
C6_AllOrNothing ==
    Checked =>
        /\ last.result.kind \in {"Ok", "Err", "Panic"}
        /\ last.result.kind = "Ok" <=> \A i \in 1..Len(last.auth) : GoodToken(i)
        /\ last.result.kind = "Ok" =>
              /\ Len(last.result.value) = Len(last.auth)
              /\ \A i \in 1..Len(last.auth) :
                    last.result.value[i] =
                        IF last.auth[i] = <<>> THEN Anonymous
                        ELSE User(Take(last.auth[i], 16))
        /\ last.result.kind # "Ok" => "value" \notin DOMAIN last.result

\* a token that verified is followed by one that fails: nothing is returned
C6_Witness ==
    /\ Checked /\ Len(last.auth) = 2
    /\ GoodToken(1) /\ last.auth[1] # <<>>
    /\ ~GoodToken(2)
    /\ last.result.kind = "Err"

\* why no verifying key can be had for token i ("" when one can)
KeyFailure(i) ==
    LET id == Take(last.auth[i], 16) IN
    IF last.fail_at = i \/ id \notin DOMAIN users \/ ~users[id].exists
    THEN "User not found"
    ELSE IF users[id].pub_key = Unreadable THEN "Failed to get public key"
    ELSE IF users[id].pub_key = Readable(<<0>>) THEN "Invalid public key encoding"
    ELSE IF users[id].pub_key = Readable(<<>>) THEN "Invalid public key length"
    ELSE IF RecordedKeys(id) = {} THEN "Invalid public key"
    ELSE ""

\* C7: for a token of at least 80 bytes whose actor's verifying key cannot
\* be obtained (no record, a lookup the store does not answer, an unreadable
\* pub_key, a pub_key that is not the base64 of 32 bytes of a valid key),
\* check_request on the initialised server fails with a validation error,
\* the one of that cause when the token is the first to be verified; it
\* never returns Anonymous or User for it.
C7_NoKeyNoContext ==
    (Checked /\ OnInitialisedServer) =>
        \A i \in 1..Len(last.auth) :
            (Len(last.auth[i]) >= 80 /\ KeyFailure(i) # "") =>
                /\ last.result.kind = "Err"
                /\ FirstNonEmpty(i) => last.result = ValidationFailed(KeyFailure(i))

\* a token naming an id without a record was refused
C7_Witness ==
    /\ Checked /\ OnInitialisedServer
    /\ \E i \in 1..Len(last.auth) :
        /\ Len(last.auth[i]) = 80 /\ Take(last.auth[i], 16) = Stranger
        /\ last.fail_at = 0
    /\ last.result = ValidationFailed("User not found")

----------------------------------------------------------------------------
(* Properties of the checkpoints.                                          *)

UserTags == {USER, <<"U", "s", "e", "r">>, <<"U", "S", "E", "R">>}
MessageTags ==
    {MESSAGE, <<"M", "e", "s", "s", "a", "g", "e">>, <<"M", "E", "S", "S", "A", "G", "E">>}

\* C8: ownership: under User(A) an event on a Message entity (whatever the
\* case of the tag) whose user field after the event is the id of B is
\* denied when B # A and allowed when B = A.
C8_Ownership ==
    \A a, b \in ActorIds \cup {Stranger} :
        ( /\ last.op = "check_event"
          /\ last.cdata = User(a)
          /\ last.entity_after.collection \in MessageTags
          /\ last.entity_after.user = String(to_base64(b)) )
        => IF a = b THEN last.result = Allow
           ELSE last.result = ByPolicy("Message user mismatch")

\* a Message naming another actor was denied
C8_Witness ==
    /\ last.op = "check_event"
    /\ last.cdata = User(EntityId(1))
    /\ last.entity_after.collection = <<"M", "e", "s", "s", "a", "g", "e">>
    /\ last.entity_after.user = String(to_base64(Stranger))
    /\ last.result.kind = "Denied"

\* C9: under Anonymous check_event allows exactly the events on an entity
\* whose collection is "user" in any ASCII case; every other one is denied
\* with a policy reason.
C9_AnonymousScope ==
    (last.op = "check_event" /\ last.cdata = Anonymous) =>
        IF last.entity_after.collection \in UserTags
        THEN last.result = Allow
        ELSE /\ last.result.kind = "Denied"
             /\ last.result.reason = "Anonymous context can only create User entities"

\* Anonymous was allowed on "User" (and elsewhere denied on "users")
C9_Witness ==
    /\ last.op = "check_event" /\ last.cdata = Anonymous
    /\ last.entity_after.collection = <<"U", "s", "e", "r">>
    /\ last.result = Allow

\* C10: every entity-mutation checkpoint, check_write as well as
\* check_event, denies Anonymous on an entity outside the User collection.
C10_AnonymousDeniedAtEveryCheckpoint ==
    /\ (last.op = "check_event" /\ last.cdata = Anonymous
            /\ last.entity_after.collection \notin UserTags)
          => last.result.kind = "Denied"
    /\ (last.op = "check_write" /\ last.data = Anonymous
            /\ last.entity.collection \notin UserTags)
          => last.result.kind = "Denied"

\* the checkpoints that are handed a collection of contexts
IterableCheckpoints ==
    {"can_access_collection", "check_read", "check_read_event", "filter_predicate"}

\* the checkpoints that are handed no context at all
ContextFreeCheckpoints ==
    {"validate_received_event", "validate_received_state", "validate_causal_assertion"}

HoldsRoot(data) == \E i \in 1..Len(data) : data[i] = Root

\* C11: under the Root context every checkpoint allows, for every collection
\* and entity: check_event allows whatever the collection and whatever the
\* user field holds (another actor, text that is no id, a value that is no
\* text, nothing), so Root is decided before the Anonymous and the ownership
\* rules; check_write allows; the checkpoints taking several contexts allow
\* when Root is among them, and those taking none allow.
C11_RootBypass ==
    /\ (last.op = "check_event" /\ last.cdata = Root) => last.result = Allow
    /\ (last.op = "check_write" /\ last.data = Root) => last.result = Allow
    /\ (last.op \in IterableCheckpoints /\ HoldsRoot(last.data))
          => last.result.kind = "Ok"
    /\ last.op \in ContextFreeCheckpoints => last.result = Allow

\* Root writes a Message naming an actor that Root is not
C11_Witness ==
    /\ last.op = "check_event"
    /\ last.cdata = Root
    /\ last.entity_after.collection \in MessageTags
    /\ last.entity_after.user = String(to_base64(Stranger))
    /\ last.result = Allow

\* what holds in every state of the concurrent initialisation
InitialisedOnce ==
    /\ root_context = "set" <=> root_instance # 0
    /\ root_instance \in {0} \cup Callers
    /\ (\E c \in Callers : init_pc[c] = "returned") => root_instance # 0
    /\ (last.op = "get_root_context" /\ last.returned # {})
          => (last.result.kind = "Ok" /\ last.instance # 0)

\* C12: for every interleaving of the initialize_root_context calls of
\* several threads on a server agent and its clones, one context is kept:
\* the cell holds at most one instance, the instance stored first is never
\* replaced by a later call, every call returns (none errs, none blocks for
\* ever), and a reader that runs after any call has returned gets an
\* initialised context.
C12_OnceOnly ==
    /\ []InitialisedOnce
    /\ [][root_instance # 0 => root_instance' = root_instance]_vars
    /\ \A c \in Callers : <>(init_pc[c] = "returned")

\* every call has returned, the context kept is the one of the second
\* caller, and a reader has obtained it
C12_Witness ==
    /\ \A c \in Callers : init_pc[c] = "returned"
    /\ root_instance = 2
    /\ last.op = "get_root_context"
    /\ last.result.kind = "Ok"
    /\ last.instance = 2

Signed == last.op = "sign_request"

\* token i of the result is the one the context i of the call asks for
TokenFor(i) ==
    LET ctx   == last.cdata[i]
        token == last.result.value[i]
    IN  CASE ctx.kind = "Anonymous" -> token = <<>>
          [] ctx.kind = "User" ->
                /\ Len(token) = AUTH_DATA_LEN
                /\ SubSeq(token, 1, USER_ID_LEN) = ctx.id
                /\ Len(SubSeq(token, USER_ID_LEN + 1, AUTH_DATA_LEN)) = SIGNATURE_LEN
                /\ last.self.variant = "Client" =>
                      SubSeq(token, USER_ID_LEN + 1, AUTH_DATA_LEN)
                        = sign(last.self.signing_key, serde_json_to_vec(last.request))
          [] OTHER -> FALSE

OneTokenPerContext ==
    /\ last.result.kind = "Ok"
    /\ Len(last.result.value) = Len(last.cdata)
    /\ \A i \in 1..Len(last.cdata) : TokenFor(i)

\* C13 as stated: sign_request returns one token per input context, in
\* input order, on every agent role and for every sequence of User and
\* Anonymous contexts: User(id) gives the 16 id bytes followed by the 64
\* signature bytes, Anonymous the empty token.
C13_OneTokenPerContext ==
    (Signed /\ ~HoldsRoot(last.cdata)) => OneTokenPerContext

\* C13, amended: on a client agent sign_request returns one token per input
\* context, in input order, for every sequence of User and Anonymous
\* contexts (User(id): the 16 id bytes then the 64 bytes of the signature of
\* the serialised request; Anonymous: the empty token); on a server agent
\* it returns a single empty token whatever the contexts are.
C13_ClientOneTokenPerContext ==
    /\ (Signed /\ last.self.variant = "Client" /\ ~HoldsRoot(last.cdata))
          => OneTokenPerContext
    /\ (Signed /\ last.self.variant = "Server") => last.result = Ok(<< <<>> >>)

\* a client signs for a User context followed by an Anonymous one
C13_Witness ==
    /\ Signed
    /\ last.self.variant = "Client"
    /\ Len(last.cdata) = 2
    /\ last.cdata[1].kind = "User"
    /\ last.cdata[2] = Anonymous
    /\ last.result.kind = "Ok"
    /\ Len(last.result.value[1]) = AUTH_DATA_LEN
    /\ last.result.value[2] = <<>>

\* C14 as stated: a sign_request call whose contexts include Root ends in a
\* fatal contract violation and produces no token sequence, on whichever
\* agent role it is called.
C14_RootAlwaysFatal ==
    (Signed /\ HoldsRoot(last.cdata)) => last.result.kind = "Panic"

\* C14, amended: on a client agent a sign_request call whose contexts
\* include Root ends in a fatal contract violation and produces no token
\* sequence; on a server agent the call returns a single empty token and
\* reads none of its contexts, so no token is ever made from Root.
C14_RootFatalOnClient ==
    /\ (Signed /\ last.self.variant = "Client" /\ HoldsRoot(last.cdata))
          => last.result = Panic("Root context should not be used from client")
    /\ (Signed /\ HoldsRoot(last.cdata) /\ last.result.kind = "Ok")
          => (last.self.variant = "Server" /\ last.result.value = << <<>> >>)

\* a client is asked to sign for a User context and then for Root
C14_Witness ==
    /\ Signed
    /\ last.self.variant = "Client"
    /\ Len(last.cdata) = 2
    /\ last.cdata[1].kind = "User"
    /\ last.cdata[2] = Root
    /\ last.result.kind = "Panic"

\* C15 as stated: every check_request call on a client agent is rejected as
\* a contract violation whatever the tokens are: it returns no context for
\* an empty token, and no validation error that depends on token length.
C15_ClientNeverVerifies ==
    (Checked /\ last.self.variant = "Client") => last.result.kind = "Panic"

\* C16: check_request on a server agent whose root context has not been
\* stored, reaching a token of at least 80 bytes (the tokens before it are
\* empty), halts with the contract violation of get_root_context: it returns
\* no context and no validation error, and reads no record.
C16_UninitialisedIsFatal ==
    (/\ Checked
     /\ last.self = new_server
     /\ root_context = "unset"
     /\ \E i \in 1..Len(last.auth) :
            FirstNonEmpty(i) /\ Len(last.auth[i]) >= AUTH_DATA_LEN)
      => /\ last.result =
              Panic("Root context not initialized - call initialize_root_context first")
         /\ last.lookups = <<>>

\* an empty token and then a well signed one, before initialisation
C16_Witness ==
    /\ Checked
    /\ last.self = new_server
    /\ root_context = "unset"
    /\ last.auth = << <<>>, SignedToken(EntityId(1), 1, Request1) >>
    /\ last.request = Request1
    /\ last.result.kind = "Panic"

\* C17: after the record of actor A has changed from the public key of one
\* signing key to that of another, every check_request made from then on
\* (the store answering) reads the record again: a token signed with the
\* replaced key fails signature verification, and a token signed with the
\* new key over the request yields User(A).
C17_RotationTakesEffect ==
    (Checked /\ OnInitialisedServer /\ rotated_from # 0 /\ last.fail_at = 0)
      => \A id \in ActorIds :
           /\ \A i \in 1..Len(last.auth) :
                (FirstNonEmpty(i)
                   /\ last.auth[i] = SignedToken(id, rotated_from, last.request))
                  => /\ last.result = ValidationFailed("Signature verification failed")
                     /\ last.lookups = <<id>>
           /\ last.auth = <<SignedToken(id, KeyHeld(users[id]), last.request)>>
                => /\ last.result = Ok(<<User(id)>>)
                   /\ last.lookups = <<id>>

\* the record went from key 1 to key 2 and a token signed with key 1, good
\* before the change, is turned away
C17_Witness ==
    /\ Checked
    /\ OnInitialisedServer
    /\ rotated_from = 1
    /\ users[EntityId(1)] = UserRecord(Readable(PubKeyOf(2)))
    /\ last.auth = <<SignedToken(EntityId(1), 1, Request1)>>
    /\ last.request = Request1
    /\ last.fail_at = 0
    /\ last.result = ValidationFailed("Signature verification failed")

\* C18: under a User context check_event allows every event on an entity
\* whose collection is not Message, whatever the fields of the entity before
\* and after hold, User entities of other actors included.
C18_OpenPolicy ==
    (/\ last.op = "check_event"
     /\ last.cdata.kind = "User"
     /\ last.entity_after.collection \notin MessageTags)
      => last.result = Allow

\* a User context writes a User-collection entity naming another actor
C18_Witness ==
    /\ last.op = "check_event"
    /\ last.cdata = User(EntityId(1))
    /\ last.entity_after.collection \in UserTags
    /\ last.entity_after.user = String(to_base64(Stranger))
    /\ last.entity_before # last.entity_after
    /\ last.result = Allow

\* C19: the read, collection-access, read-event, received-event,
\* received-state and causal-assertion checkpoints allow for every context
\* kind and every input, and filter_predicate returns the predicate it was
\* given.
C19_PassThrough ==
    /\ last.op \in {"check_read", "can_access_collection", "check_read_event",
                    "validate_received_event", "validate_received_state",
                    "validate_causal_assertion"}
          => last.result = Allow
    /\ last.op = "filter_predicate" => last.result = Ok(last.predicate)

\* an Anonymous context alone reads a Message of another actor
C19_Witness ==
    /\ last.op = "check_read"
    /\ last.data = <<Anonymous>>
    /\ last.state = [collection |-> MESSAGE, entity_id |-> Stranger]
    /\ last.result = Allow

\* C20 as stated: an event issued under Anonymous that modifies a User
\* entity that already exists is denied by check_event.
C20_AnonymousOnlyCreates ==
    (last.op = "commit" /\ last.cdata = Anonymous /\ last.existed)
      => last.result.kind = "Denied"

\* C21: under a User context check_event compares owners on a Message only
\* when the user field after the event is present as a string: when the
\* field is absent (or holds a value that is no string) the event is
\* allowed, and when it is a string that is no actor id the event is denied
\* with the reason "Invalid user ID in message".
C21_OwnershipOnlyOnPresentString ==
    (/\ last.op = "check_event"
     /\ last.cdata.kind = "User"
     /\ last.entity_after.collection \in MessageTags)
      => /\ last.entity_after.user.type # "String" => last.result = Allow
         /\ (/\ last.entity_after.user.type = "String"
             /\ \A id \in ActorIds \cup {Stranger} :
                    last.entity_after.user # String(to_base64(id)))
              => last.result = ByPolicy("Invalid user ID in message")

\* a Message whose user field is the empty string is turned away
C21_Witness ==
    /\ last.op = "check_event"
    /\ last.cdata = User(EntityId(1))
    /\ last.entity_after.collection = MESSAGE
    /\ last.entity_after.user = String(<<>>)
    /\ last.result = ByPolicy("Invalid user ID in message")

\* the Message names its owner, and the owner is the context of the latest
\* event accepted on it
OwnedByLatestIssuer ==
    (message_entity.exists /\ message_entity.user.type = "String")
      => /\ message_entity.issuer.kind = "User"
         /\ message_entity.user = String(to_base64(message_entity.issuer.id))

\* C22 as stated: after any sequence of accepted events under non-Root
\* contexts a Message whose user field is a present string names the issuer
\* of the latest accepted event, and an event under User(B) on a Message
\* owned by A is accepted exactly when it leaves the user field equal to B.
C22_AcceptedIffOwnedByIssuer ==
    /\ OwnedByLatestIssuer
    /\ \A a, b \in ActorIds \cup {Stranger} :
          (/\ last.op = "apply_event"
           /\ a # b
           /\ last.cdata = User(b)
           /\ last.entity_before.user = String(to_base64(a)))
            => (last.result = Allow
                  <=> last.entity_after.user = String(to_base64(b)))

\* C22, amended: after any sequence of accepted events under non-Root
\* contexts a Message whose user field is a present string names the issuer
\* of the latest accepted event; the decision reads only the state after
\* the event, so an event under User(B), whoever owned the Message before,
\* is accepted exactly when it leaves the user field equal to B or leaves
\* it absent or not a string; an event under Anonymous is never accepted.
C22_AcceptedIffOwnedOrUnowned ==
    /\ OwnedByLatestIssuer
    /\ \A b \in ActorIds \cup {Stranger} :
          (last.op = "apply_event" /\ last.cdata = User(b))
            => (last.result = Allow
                  <=> \/ last.entity_after.user = String(to_base64(b))
                      \/ last.entity_after.user.type # "String")
    /\ (last.op = "apply_event" /\ last.cdata = Anonymous)
          => last.result.kind = "Denied"

\* a Message owned by one actor is taken over by another, who names itself
C22_Witness ==
    /\ last.op = "apply_event"
    /\ last.cdata = User(Stranger)
    /\ last.entity_before.user = String(to_base64(EntityId(1)))
    /\ last.entity_after.user = String(to_base64(Stranger))
    /\ last.result = Allow
    /\ message_entity.user = String(to_base64(Stranger))
    /\ message_entity.issuer = User(Stranger)

\* C24: in the server process initialize_root_context has completed before
\* the websocket server accepts connections, on every execution of main, so
\* every check_request of an inbound request finds the root context set and
\* none ends in the contract violation of get_root_context.
C24_InitialisedBeforeServing ==
    /\ main_pc \in {"run", "serving"} => (root_context = "set" /\ root_instance # 0)
    /\ Checked => /\ main_pc = "serving"
                  /\ root_context = "set"
                  /\ last.result.kind # "Panic"

\* the running server verifies a signed token against a registered key
C24_Witness ==
    /\ main_pc = "serving"
    /\ Checked
    /\ last.auth = <<SignedToken(EntityId(1), 1, Request1)>>
    /\ last.request = Request1
    /\ last.result = Ok(<<User(EntityId(1))>>)

\* C23 as stated: for every interleaving of ready() calls with the steps of
\* start(), no ready() call returns before init_user_internal has succeeded
\* and the current-user signal has been set.
C23_ReadyAfterUserInitialised ==
    \A r \in ReadyCalls :
        ready_pc[r] = "returned" => (CURRENT_USER = "user" /\ start_pc = "done")

\* the stored user id names a committed User entity that holds the pub_key
\* of the browser's key, and a run that failed while creating the entity,
\* setting its key or committing has stored nothing
StoredOnlyIfCommitted ==
    /\ storage_user_id # 0
          => /\ storage_user_id \in 1..Len(created)
             /\ created[storage_user_id] = PubKeyOf(BrowserKey)
    /\ (/\ start_pc = "failed"
        /\ last.op = "init_user_internal"
        /\ last.failed_at \in {"create", "set_pub_key", "commit"})
          => storage_user_id = 0

\* C25: init_user_internal writes the user id to local storage only after
\* the Anonymous transaction that creates the User entity with its pub_key
\* has committed; when creation, key setting or commit fails no user id is
\* stored; and a run that finds a stored user id creates no User entity.
C25_StoreAfterCommit ==
    /\ []StoredOnlyIfCommitted
    /\ [][storage_user_id' # storage_user_id
            => (/\ start_pc = "set_item"
                /\ storage_user_id = 0
                /\ storage_user_id' = Len(created)
                /\ created' = created)]_vars
    /\ [][storage_user_id # 0 => created' = created]_vars

\* a second page load found the id stored by the first and completed with
\* the one User entity there was
C25_Witness ==
    /\ runs = 2
    /\ start_pc = "done"
    /\ storage_user_id = 1
    /\ Len(created) = 1
    /\ CURRENT_USER = "user"

====
